---- MODULE Spec2Model ----
(***************************************************************************)
(* Lead intake backend: POST /api/leads (create_lead), the notification    *)
(* sender (send_email), the sede resolver (get_sede_cc_email) and the Lead *)
(* schema.  A request is validated, persisted, a notification is composed  *)
(* and sent, and a response is returned.                                   *)
(*                                                                         *)
(* Text that the code builds by concatenation (an f-string, a join) is a   *)
(* sequence of fragments, so that what a header value contains can be      *)
(* decided from its parts.  A value Python would hold as None is None.     *)
(***************************************************************************)
EXTENDS Integers, Sequences, FiniteSets, TLC

VARIABLES env, req, store, nextId, relay

vars == <<env, req, store, nextId, relay>>

\* ------------------------------------------------------------- bounds

\* Requests the serving layer runs at the same time (SpecConc).
MaxRequests == 2

\* Ages tried on each side of the accepted range (Spec).
AgeMargin == 1

\* ------------------------------------------------- program constants

\* schemas.py: child_age: int = Field(..., ge=3, le=17)
MinAge == 3

MaxAge == 17

\* Python's None: an unset environment variable, an absent optional field.
None == "<None>"

\* bool(v) of a value that is None or a str.
Truthy(v) == v \notin {None, ""}

\* os.getenv(key, default) on the environment e (the variables that are set).
getenv(e, key, default) == IF key \in DOMAIN e THEN e[key] ELSE default

\* int(s) for the port texts of the model; int() raises ValueError elsewhere.
IntOf == ("587" :> 587) @@ ("2525" :> 2525) @@ ("25" :> 25)

IsIntLiteral(s) == s \in DOMAIN IntOf

\* The texts of the model that hold a carriage return or a linefeed.
LineBreakTexts == {"Kids\r\nBcc: spy@example.org", "mailer@example.org\n"}

\* len(value.splitlines()) > 1 or a trailing line break, over a text's fragments:
\* email.policy refuses such a header value with ValueError.
HasLineBreak(text) == \E i \in 1..Len(text) : text[i] \in LineBreakTexts

\* sep.join(items), as fragments.
RECURSIVE Join(_, _)
Join(items, sep) ==
  IF Len(items) = 0 THEN <<>>
  ELSE IF Len(items) = 1 THEN <<items[1]>>
  ELSE <<items[1], sep>> \o Join(Tail(items), sep)

\* ------------------------------------------------------------ schema

RequiredText ==
  {"parent_name", "parent_email", "parent_phone", "child_name", "program", "sede"}

\* EmailStr: the addresses of the model that email-validator accepts.
ValidEmails == {"ana@x.com"}

IsEmail(s) == s \in ValidEmails

\* A mutant of LeadValid: the lower age bound off by one (ge=2).
LeadValidLooseAge(lead) ==
  /\ \A f \in RequiredText : lead[f] # None
  /\ IsEmail(lead.parent_email)
  /\ lead.child_age >= MinAge - 1
  /\ lead.child_age <= MaxAge

\* A mutant of LeadValid: a required field may be absent.
LeadValidOptionalName(lead) ==
  /\ \A f \in RequiredText \ {"parent_name"} : lead[f] # None
  /\ IsEmail(lead.parent_email)
  /\ lead.child_age >= MinAge
  /\ lead.child_age <= MaxAge

\* Lead(**payload) passes: every Field(...) is present and a str, parent_email is
\* an EmailStr, child_age is within ge/le.  No field has a min_length.
LeadValid(lead) ==
  /\ \A f \in RequiredText : lead[f] # None
  /\ IsEmail(lead.parent_email)
  /\ lead.child_age >= MinAge
  /\ lead.child_age <= MaxAge

\* ---------------------------------------------------------- resolver

key_map ==
  ("San Isidro" :> "SEDE_SAN_ISIDRO_EMAIL") @@
  ("La Molina" :> "SEDE_LA_MOLINA_EMAIL") @@
  ("Pueblo Libre" :> "SEDE_PUEBLO_LIBRE_EMAIL") @@
  ("Breña" :> "SEDE_BRENA_EMAIL") @@
  ("San Miguel" :> "SEDE_SAN_MIGUEL_EMAIL")

\* A mutant of get_sede_cc_email: the Breña entry reads San Miguel's variable.
get_sede_cc_email_swapped(e, sede) ==
  LET env_key == IF sede \in DOMAIN key_map THEN key_map[sede] ELSE None
  IN  IF env_key = "SEDE_BRENA_EMAIL" THEN getenv(e, "SEDE_SAN_MIGUEL_EMAIL", None)
      ELSE IF Truthy(env_key) THEN getenv(e, env_key, None) ELSE None

get_sede_cc_email(e, sede) ==
  LET env_key == IF sede \in DOMAIN key_map THEN key_map[sede] ELSE None
  IN  IF Truthy(env_key) THEN getenv(e, env_key, None) ELSE None

\* ------------------------------------------------------- send_email

\* Where the SMTP session fails, if it does: the outcome of the relay and the
\* network, which the code does not control.
NetFaults == {"none", "connect", "starttls", "login", "send_message", "quit"}

SessionOps == <<"connect", "starttls", "login", "send_message", "quit">>

\* The operations of a session that fails at fault (all of them if at none).
OpsUntil(fault) ==
  IF fault = "none" THEN SessionOps
  ELSE SubSeq(SessionOps, 1, CHOOSE i \in 1..Len(SessionOps) : SessionOps[i] = fault)

\* The relay received the message: send_message completed.
Transmitted(fault) == fault \in {"none", "quit"}

\* send_email(subject, body, to_addrs, cc_addrs) in environment e with the session
\* failing at fault.  raised: an exception left the function; ret: its return
\* value; ops: the network operations attempted; transmitted: the relay received
\* msg, the message built.
send_email(e, subject, body, to_addrs, cc_addrs, fault) ==
  LET smtp_host == getenv(e, "SMTP_HOST", None)
      port_text == getenv(e, "SMTP_PORT", "587")
      smtp_user == getenv(e, "SMTP_USER", None)
      smtp_pass == getenv(e, "SMTP_PASS", None)
      smtp_from == getenv(e, "SMTP_FROM",
                          IF Truthy(smtp_user) THEN smtp_user ELSE "no-reply@localhost")
      to_header == Join(to_addrs, ", ")
      cc_header == Join(cc_addrs, ", ")
      msg == [Subject |-> subject, From |-> smtp_from, To |-> to_header,
              Cc |-> IF Len(cc_addrs) > 0 THEN cc_header ELSE <<>>,
              content |-> body]
      quiet == [raised |-> FALSE, ret |-> FALSE, ops |-> <<>>, transmitted |-> FALSE,
                msg |-> msg]
  IN  IF ~IsIntLiteral(port_text)
        THEN [quiet EXCEPT !.raised = TRUE]
      ELSE IF ~Truthy(smtp_host) \/ ~Truthy(smtp_user) \/ ~Truthy(smtp_pass)
        THEN quiet
      ELSE IF \/ HasLineBreak(subject)
              \/ HasLineBreak(<<smtp_from>>)
              \/ HasLineBreak(to_header)
              \/ (Len(cc_addrs) > 0 /\ HasLineBreak(cc_header))
        THEN [quiet EXCEPT !.raised = TRUE]
      ELSE [raised |-> FALSE, ret |-> (fault = "none"), ops |-> OpsUntil(fault),
            transmitted |-> Transmitted(fault), msg |-> msg]

\* ------------------------------------------------- persistence gateway

\* create_document(collection, data): one document inserted under a fresh
\* identifier, which is returned as text.
create_document(docs, n, collection, data) ==
  LET id == "oid" \o ToString(n)
  IN  [docs |-> docs \cup {[collection |-> collection, id |-> id, doc |-> data]},
       id |-> id]

\* ------------------------------------------------------------ inputs

\* Scenario A of the specification.
BaseLead ==
  [parent_name |-> "Ana", parent_email |-> "ana@x.com", parent_phone |-> "999",
   child_name |-> "Leo", child_age |-> 8, program |-> "Kids", sede |-> "San Isidro",
   courses |-> <<"Ajedrez">>, message |-> None, source |-> None]

Ages == (MinAge - AgeMargin)..(MaxAge + AgeMargin)

\* The five names of key_map, and names that are not: unknown, another case,
\* without the accent, empty.
Sedes ==
  {"San Isidro", "La Molina", "Pueblo Libre", "Breña", "San Miguel",
   "Atlantis", "san isidro", "Brena", ""}

Programs == {"Kids", "Mini Kids", "Kids\r\nBcc: spy@example.org"}

\* Payloads of a request examined alone: every age with every sede and program,
\* each required text field absent or empty, a malformed address, and the
\* optional fields given.
Leads ==
  {[BaseLead EXCEPT !.child_age = a, !.sede = s, !.program = p] :
     a \in Ages, s \in Sedes, p \in Programs}
  \cup {[BaseLead EXCEPT ![f] = v] : f \in RequiredText, v \in {None, ""}}
  \cup {[BaseLead EXCEPT !.parent_email = "ana.x.com"],
        [BaseLead EXCEPT !.courses = <<>>],
        [BaseLead EXCEPT !.courses = <<"Ajedrez", "Teatro">>, !.message = "Hola",
                         !.source = "fb"]}

\* Payloads of concurrent requests: scenarios A, B and E of the specification.
ConcLeads ==
  {BaseLead, [BaseLead EXCEPT !.child_age = 2], [BaseLead EXCEPT !.sede = "Atlantis"]}

MailFull ==
  [SMTP_HOST |-> "smtp.example.org", SMTP_USER |-> "mailer@example.org",
   SMTP_PASS |-> "secret"]

BookFull ==
  [SEDE_SAN_ISIDRO_EMAIL |-> "sanisidro@example.org",
   SEDE_LA_MOLINA_EMAIL |-> "lamolina@example.org",
   SEDE_PUEBLO_LIBRE_EMAIL |-> "pueblolibre@example.org",
   SEDE_BRENA_EMAIL |-> "brena@example.org",
   SEDE_SAN_MIGUEL_EMAIL |-> "sanmiguel@example.org"]

\* The environment e without the variables in keys.
Unset(e, keys) == [k \in DOMAIN e \ keys |-> e[k]]

\* Mail configurations: complete, each of host, user and secret unset or empty,
\* none set, a port that is a number, is no number or is empty, and a sender
\* address that is given, with and without a line break.
MailConfigs ==
  {MailFull, << >>,
   Unset(MailFull, {"SMTP_HOST"}), Unset(MailFull, {"SMTP_USER"}),
   Unset(MailFull, {"SMTP_PASS"}),
   [MailFull EXCEPT !.SMTP_HOST = ""], [MailFull EXCEPT !.SMTP_PASS = ""],
   MailFull @@ [SMTP_PORT |-> "2525"],
   MailFull @@ [SMTP_PORT |-> "smtp"],
   MailFull @@ [SMTP_PORT |-> ""],
   [SMTP_PORT |-> "smtp"],
   Unset(MailFull, {"SMTP_PASS"}) @@ [SMTP_PORT |-> "smtp"],
   MailFull @@ [SMTP_FROM |-> "leads@example.org"],
   MailFull @@ [SMTP_FROM |-> "mailer@example.org\n"]}

\* Address books: every sede configured, none, some, and one set to the empty text.
Books ==
  {BookFull, << >>,
   Unset(BookFull, {"SEDE_SAN_ISIDRO_EMAIL", "SEDE_BRENA_EMAIL"}),
   [BookFull EXCEPT !.SEDE_LA_MOLINA_EMAIL = ""]}

\* Environments of a request examined alone.
Envs ==
  {m @@ BookFull : m \in MailConfigs}
  \cup {MailFull @@ b : b \in Books}
  \cup {MailFull @@ BookFull @@ [LEADS_TO |-> "leads@example.org"],
        BookFull @@ [LEADS_TO |-> "leads@example.org"]}

\* Environments of concurrent requests: scenarios A and C of the specification,
\* and a port that is no number.
ConcEnvs == {MailFull @@ BookFull, BookFull, MailFull @@ BookFull @@ [SMTP_PORT |-> "smtp"]}

Requests == 1..MaxRequests

\* ------------------------------------------------------------- state

\* env: the process environment.  store: the documents of the store.  nextId:
\* the store's identifier counter.  relay: the messages the relay received.
\* req[r]: request r's handler: its position, its locals, its response, and a
\* record of what it did (steps, persisted, sendCalls, raised, ops).
Idle ==
  [pc |-> "idle", lead |-> None, lead_id |-> None, sede_cc |-> None,
   to_addrs |-> <<>>, cc_addrs |-> <<>>, subject |-> <<>>, body |-> <<>>,
   email_sent |-> FALSE, response |-> [status |-> 0],
   steps |-> <<>>, persisted |-> "no", sendCalls |-> 0, raised |-> FALSE,
   ops |-> <<>>]

InitWith(envs) ==
  /\ env \in envs
  /\ req = [r \in Requests |-> Idle]
  /\ store = {}
  /\ nextId = 1
  /\ relay = {}

Init == InitWith(Envs)

InitConc == InitWith(ConcEnvs)

\* ----------------------------------------------------------- create_lead

\* The payload fails validation (FastAPI's, of the Lead parameter): 422.
Reject(r, lead) ==
  /\ req[r].pc = "idle"
  /\ ~LeadValid(lead)
  /\ req' = [req EXCEPT ![r].pc = "done", ![r].lead = lead,
                        ![r].steps = Append(@, "validate"),
                        ![r].response = [status |-> 422, detail |-> "validation"]]
  /\ UNCHANGED <<env, store, nextId, relay>>

\* The payload passes validation, and Lead(**lead.model_dump()) again.
Accept(r, lead) ==
  /\ req[r].pc = "idle"
  /\ LeadValid(lead)
  /\ req' = [req EXCEPT ![r].pc = "persist", ![r].lead = lead,
                        ![r].steps = Append(@, "validate")]
  /\ UNCHANGED <<env, store, nextId, relay>>

\* lead_id = create_document("lead", lead) returns.
PersistOk(r) ==
  /\ req[r].pc = "persist"
  /\ LET got == create_document(store, nextId, "lead", req[r].lead)
     IN  /\ store' = got.docs
         /\ nextId' = nextId + 1
         /\ req' = [req EXCEPT ![r].pc = "prepare", ![r].lead_id = got.id,
                               ![r].persisted = "ok",
                               ![r].steps = Append(@, "persist")]
  /\ UNCHANGED <<env, relay>>

\* A mutant of PersistFail: the exception is swallowed and the handler goes on.
PersistFailSwallowed(r) ==
  /\ req[r].pc = "persist"
  /\ req' = [req EXCEPT ![r].pc = "prepare", ![r].persisted = "failed",
                        ![r].steps = Append(@, "persist")]
  /\ UNCHANGED <<env, store, nextId, relay>>

\* create_document raises (no connection, an insert error): 500.
PersistFail(r) ==
  /\ req[r].pc = "persist"
  /\ req' = [req EXCEPT ![r].pc = "done", ![r].persisted = "failed",
                        ![r].steps = Append(@, "persist"),
                        ![r].response = [status |-> 500, detail |-> "Database error"]]
  /\ UNCHANGED <<env, store, nextId, relay>>

\* The subject line.
Subject(lead) ==
  <<"Nueva Acrópolis Lima - Lead Kids (", lead.program, ") - ", lead.sede>>

\* v or the dash placeholder (U+2014 in the source, written "--" here).
OrDash(v) == IF Truthy(v) THEN v ELSE "--"

\* The body: one fragment per label and per value.
Body(lead, lead_id) ==
  <<"Sede: ", lead.sede, "Programa: ", lead.program, "Cursos de interés: ">>
  \o (IF Len(lead.courses) > 0 THEN Join(lead.courses, ", ") ELSE <<"N/A">>)
  \o <<"- Nombre: ", lead.parent_name, "- Email: ", lead.parent_email,
       "- Teléfono: ", lead.parent_phone,
       "- Nombre: ", lead.child_name, "- Edad: ", ToString(lead.child_age),
       "Mensaje: ", OrDash(lead.message), "Fuente: ", OrDash(lead.source),
       "ID: ", lead_id>>

\* Prepare email: the resolver, the recipients, the subject and the body.
Prepare(r) ==
  /\ req[r].pc = "prepare"
  /\ LET lead == req[r].lead
         sede_cc == get_sede_cc_email(env, lead.sede)
     IN  req' = [req EXCEPT
                   ![r].pc = "send",
                   ![r].sede_cc = sede_cc,
                   ![r].to_addrs = <<getenv(env, "LEADS_TO", "cursos@acropolisperu.org")>>,
                   ![r].cc_addrs = IF Truthy(sede_cc) THEN <<sede_cc>> ELSE <<>>,
                   ![r].subject = Subject(lead),
                   ![r].body = Body(lead, req[r].lead_id),
                   ![r].steps = Append(@, "resolve")]
  /\ UNCHANGED <<env, store, nextId, relay>>

\* The handler after send_email gave out: an exception leaves create_lead and the
\* framework answers 500; a return value is kept for the response.
AfterSend(r, out, calls) ==
  /\ req' = [req EXCEPT
               ![r].pc = IF out.raised THEN "done" ELSE "respond",
               ![r].email_sent = out.ret,
               ![r].raised = out.raised,
               ![r].ops = @ \o out.ops,
               ![r].sendCalls = @ + calls,
               ![r].steps = Append(@, "send"),
               ![r].response = IF out.raised
                                 THEN [status |-> 500, detail |-> "Internal Server Error"]
                                 ELSE @]
  /\ relay' = IF out.transmitted THEN relay \cup {[request |-> r, msg |-> out.msg]}
              ELSE relay

\* A mutant of Send: a failed send is tried once more.
SendRetry(r, fault) ==
  /\ req[r].pc = "send"
  /\ LET out == send_email(env, req[r].subject, req[r].body, req[r].to_addrs,
                           req[r].cc_addrs, fault)
     IN  AfterSend(r, out, IF out.ret THEN 1 ELSE 2)
  /\ UNCHANGED <<env, store, nextId>>

\* A mutant of Send: the stored lead is deleted when the notification fails.
SendCompensating(r, fault) ==
  /\ req[r].pc = "send"
  /\ LET out == send_email(env, req[r].subject, req[r].body, req[r].to_addrs,
                           req[r].cc_addrs, fault)
     IN  /\ AfterSend(r, out, 1)
         /\ store' = IF out.ret THEN store
                     ELSE {d \in store : d.id # req[r].lead_id}
  /\ UNCHANGED <<env, nextId>>

\* email_sent = send_email(subject, body, to_addrs, cc_addrs)
Send(r, fault) ==
  /\ req[r].pc = "send"
  /\ LET out == send_email(env, req[r].subject, req[r].body, req[r].to_addrs,
                           req[r].cc_addrs, fault)
     IN  AfterSend(r, out, 1)
  /\ UNCHANGED <<env, store, nextId>>

\* return {"ok": True, "id": lead_id, "email_sent": email_sent}
Respond(r) ==
  /\ req[r].pc = "respond"
  /\ req' = [req EXCEPT ![r].pc = "done",
                        ![r].steps = Append(@, "respond"),
                        ![r].response = [status |-> 200, ok |-> TRUE,
                                         id |-> req[r].lead_id,
                                         email_sent |-> req[r].email_sent]]
  /\ UNCHANGED <<env, store, nextId, relay>>

\* One request, examined alone, over every payload and environment.
Next ==
  \/ \E lead \in Leads : Reject(1, lead)
  \/ \E lead \in Leads : Accept(1, lead)
  \/ PersistOk(1)
  \/ PersistFail(1)
  \/ Prepare(1)
  \/ \E fault \in NetFaults : Send(1, fault)
  \/ Respond(1)

Spec == Init /\ [][Next]_vars

\* MaxRequests requests, each run by its own worker, in any interleaving.
NextConc ==
  \E r \in Requests :
    \/ \E lead \in ConcLeads : Reject(r, lead)
    \/ \E lead \in ConcLeads : Accept(r, lead)
    \/ PersistOk(r)
    \/ PersistFail(r)
    \/ Prepare(r)
    \/ \E fault \in NetFaults : Send(r, fault)
    \/ Respond(r)

SpecConc == InitConc /\ [][NextConc]_vars

\* ------------------------------------------------------------- claims

Did(r, step) == \E i \in 1..Len(req[r].steps) : req[r].steps[i] = step

Succeeded(r) ==
  /\ req[r].response.status = 200
  /\ req[r].response.ok
  /\ req[r].response.id = req[r].lead_id
  /\ req[r].response.id \notin {None, ""}

FullOrder == <<"validate", "persist", "resolve", "send", "respond">>

\* C1: whenever the persistence call of a request succeeded, the request ends
\* with ok = true and the non-empty persisted identifier, whatever happens in
\* the compose-and-send step.
C1_PersistedAlwaysSucceeds ==
  \A r \in Requests :
    (req[r].persisted = "ok" /\ req[r].pc = "done") => Succeeded(r)

\* C2: a request whose child_age is below 3 or above 17 ends with a 422, nothing
\* of it is persisted and no notification send is attempted.
C2_AgeOutOfRangeRejected ==
  \A r \in Requests :
    (req[r].pc # "idle" /\ (req[r].lead.child_age < 3 \/ req[r].lead.child_age > 17))
      => /\ req[r].pc = "done"
         /\ req[r].response.status = 422
         /\ req[r].persisted = "no"
         /\ req[r].lead_id = None
         /\ \A d \in store : d.doc # req[r].lead
         /\ req[r].sendCalls = 0
         /\ req[r].ops = <<>>
         /\ \A m \in relay : m.request # r

C2_Witness ==
  \E r \in Requests :
    /\ req[r].pc = "done"
    /\ req[r].lead.child_age > 17
    /\ req[r].lead.parent_name = "Ana"
    /\ req[r].response.status = 422

\* C3: a request whose persistence call failed ends with a 500, has no
\* identifier, and never resolves, composes or sends.
C3_PersistFailureStops ==
  \A r \in Requests :
    req[r].persisted = "failed"
      => /\ req[r].pc = "done"
         /\ req[r].response.status = 500
         /\ req[r].lead_id = None
         /\ ~Did(r, "resolve")
         /\ ~Did(r, "send")
         /\ req[r].sendCalls = 0
         /\ req[r].ops = <<>>
         /\ \A m \in relay : m.request # r

C3_Witness ==
  \E r \in Requests :
    /\ req[r].persisted = "failed"
    /\ req[r].pc = "done"
    /\ req[r].lead.child_age = 8
    /\ "SMTP_HOST" \in DOMAIN env

\* C4: send_email never raises to its caller, and returns true only if connect,
\* starttls, login and send_message all completed.
C4_SendNeverRaises ==
  \A r \in Requests :
    req[r].sendCalls > 0
      => /\ ~req[r].raised
         /\ req[r].email_sent => req[r].ops = SessionOps

\* C5: with the relay host, user or secret missing, send_email returns false and
\* attempts no network operation, and the intake answers ok = true with a
\* non-empty id and email_sent = false.
C5_IncompleteConfigSkips ==
  \A r \in Requests :
    (req[r].sendCalls > 0 /\ {"SMTP_HOST", "SMTP_USER", "SMTP_PASS"} \ DOMAIN env # {})
      => /\ ~req[r].raised
         /\ ~req[r].email_sent
         /\ req[r].ops = <<>>
         /\ req[r].pc = "done" => (Succeeded(r) /\ ~req[r].response.email_sent)

\* C6, as stated: a request with a required text field absent or empty is
\* rejected with a 422 and never persisted.
C6_EmptyFieldRejected ==
  \A r \in Requests :
    (req[r].pc # "idle" /\ \E f \in RequiredText : req[r].lead[f] \in {None, ""})
      => /\ req[r].persisted # "ok"
         /\ req[r].pc = "done" => req[r].response.status = 422

\* C6, amended: a request with a required field absent is rejected with a 422
\* and never persisted; a request whose required fields are all present, with a
\* valid parent_email and a child_age in 3..17, is not rejected, also when a
\* required text field other than parent_email is the empty string.
C6_AbsentFieldRejected ==
  \A r \in Requests :
    req[r].pc # "idle"
      => /\ (\E f \in RequiredText : req[r].lead[f] = None)
              => /\ req[r].pc = "done"
                 /\ req[r].response.status = 422
                 /\ req[r].persisted = "no"
                 /\ \A d \in store : d.doc # req[r].lead
         /\ ( /\ \A f \in RequiredText : req[r].lead[f] # None
              /\ req[r].lead.parent_email = "ana@x.com"
              /\ req[r].lead.child_age \in 3..17 )
              => req[r].response.status # 422

C6_Witness ==
  \E r \in Requests :
    /\ req[r].lead_id # None
    /\ req[r].lead.parent_name = ""
    /\ req[r].persisted = "ok"
    /\ \E d \in store : d.id = req[r].lead_id /\ d.doc.parent_name = ""

\* The address the claim names for a sede: that of the sede's own variable for
\* the five names, absence for every other text.
Configured(sede) ==
  CASE sede = "San Isidro" -> getenv(env, "SEDE_SAN_ISIDRO_EMAIL", None)
    [] sede = "La Molina" -> getenv(env, "SEDE_LA_MOLINA_EMAIL", None)
    [] sede = "Pueblo Libre" -> getenv(env, "SEDE_PUEBLO_LIBRE_EMAIL", None)
    [] sede = "Breña" -> getenv(env, "SEDE_BRENA_EMAIL", None)
    [] sede = "San Miguel" -> getenv(env, "SEDE_SAN_MIGUEL_EMAIL", None)
    [] OTHER -> None

\* C7: the resolver never fails, returns for each of the five sede names the
\* address configured for it (absence if none is), and absence for any other
\* text.
C7_ResolverExact ==
  \A r \in Requests :
    /\ (req[r].persisted = "ok" /\ req[r].pc # "prepare") => Did(r, "resolve")
    /\ Did(r, "resolve") => req[r].sede_cc = Configured(req[r].lead.sede)

C7_Witness ==
  \E r \in Requests :
    /\ Did(r, "resolve")
    /\ req[r].lead.sede = "Breña"
    /\ req[r].sede_cc = "brena@example.org"
    /\ "SEDE_SAN_MIGUEL_EMAIL" \in DOMAIN env

\* C8: the notification goes to the one default primary recipient and copies the
\* resolver's address when the sede has one; when it has none, no secondary
\* recipient is added and the intake still succeeds.
C8_RecipientsAndSuccess ==
  \A r \in Requests :
    Did(r, "resolve")
      => /\ req[r].to_addrs = <<getenv(env, "LEADS_TO", "cursos@acropolisperu.org")>>
         /\ Truthy(Configured(req[r].lead.sede))
              => req[r].cc_addrs = <<Configured(req[r].lead.sede)>>
         /\ ~Truthy(Configured(req[r].lead.sede))
              => /\ req[r].cc_addrs = <<>>
                 /\ req[r].pc = "done" => Succeeded(r)

\* C9: at every moment the store holds exactly one record for each request whose
\* persistence call succeeded, with that request's content and an identifier of
\* its own, and nothing else: none is merged, updated or deleted.
C9_OneRecordPerPersist ==
  LET ok == {r \in Requests : req[r].persisted = "ok"}
  IN  /\ \A r \in ok :
           /\ Cardinality({d \in store : d.id = req[r].lead_id}) = 1
           /\ \A d \in store :
                d.id = req[r].lead_id => (d.doc = req[r].lead /\ d.collection = "lead")
      /\ \A r1, r2 \in ok : r1 # r2 => req[r1].lead_id # req[r2].lead_id
      /\ Cardinality(store) = Cardinality(ok)

C9_Witness ==
  \E r1, r2 \in Requests :
    /\ r1 # r2
    /\ req[r1].persisted = "ok"
    /\ req[r2].persisted = "ok"
    /\ req[r1].lead = req[r2].lead
    /\ req[r1].pc = "done"
    /\ Did(r1, "send")
    /\ ~req[r1].email_sent
    /\ req[r2].pc = "done"

\* C10: a request's steps are a prefix of validate, persist, resolve, send,
\* respond; send_email is called at most once, only for a persisted lead, with a
\* body that ends in the identifier persistence returned, which is the
\* identifier of the response.
C10_LinearOrder ==
  \A r \in Requests :
    /\ Len(req[r].steps) <= Len(FullOrder)
    /\ req[r].steps = SubSeq(FullOrder, 1, Len(req[r].steps))
    /\ req[r].sendCalls <= 1
    /\ Cardinality({m \in relay : m.request = r}) <= req[r].sendCalls
    /\ req[r].sendCalls = 1
         => /\ req[r].persisted = "ok"
            /\ \E d \in store : d.id = req[r].lead_id
            /\ req[r].body[Len(req[r].body) - 1] = "ID: "
            /\ req[r].body[Len(req[r].body)] = req[r].lead_id
    /\ \A m \in relay :
         m.request = r => m.msg.content[Len(m.msg.content)] = req[r].lead_id
    /\ req[r].response.status = 200
         => /\ req[r].response.id = req[r].lead_id
            /\ req[r].sendCalls = 1
            /\ req[r].steps = FullOrder

C10_Witness ==
  \E r \in Requests :
    /\ req[r].pc = "done"
    /\ req[r].response.status = 200
    /\ req[r].steps = FullOrder
    /\ ~req[r].response.email_sent
    /\ req[r].ops # <<>>
    /\ \E q \in Requests : q # r /\ req[q].pc \notin {"idle", "done"}

====
